---- MODULE Spec2Model ----
(***************************************************************************)
(* VantagePoint: the Feature Engine (src/features/engine.py), the          *)
(* Acquisition Reconciler (src/ingest/vlr.py) and the Offer Normalizer     *)
(* (src/ingest/prizepicks.py): its paging and its row extraction.          *)
(*                                                                         *)
(* Numbers that Python keeps as floats are kept as exact fractions         *)
(* <<numerator, denominator>>; NaN is the fraction with denominator 0.     *)
(* Probabilities of a map-pool row are given in tenths.                    *)
(***************************************************************************)
EXTENDS Integers, Sequences, FiniteSets, TLC

VARIABLES
    player_maps, featCall, featRes,   \* Feature Engine: record store, call, result
    aCall, aRes,                      \* api_fetch_match: arguments and responses, result
    mUrl, mApi, mOut,                 \* parse_match: locator, primary result, result
    fetches,                          \* the fetch_html calls made so far, with results
    bUrls, bPos, bStatus,             \* scrape_matches: input, loop position, outcome
    matches_meta, all_maps, all_pmaps,\* scrape_matches: the three accumulators
    bSkipped, bOut,                   \* positions skipped so far, the returned frames
    ppPc, ppParams, ppFirst,          \* fetch_raw_projections: position, params, page-1 size
    ppPage, ppOut, ppRes,             \* _paginate: page number, sizes collected; the result
    ppJson, ppRows, ppDf,             \* _extract_offer_rows: input, result; the offers frame
    netLog,                           \* the requests and pauses issued so far
    cache                             \* the disk cache of fetch_html

featVars == <<player_maps, featCall, featRes>>
apiVars == <<aCall, aRes>>
matchVars == <<mUrl, mApi, mOut, fetches>>
batchVars == <<bUrls, bPos, bStatus, matches_meta, all_maps, all_pmaps,
               bSkipped, bOut>>
offerVars == <<ppPc, ppParams, ppFirst, ppPage, ppOut, ppRes,
               ppJson, ppRows, ppDf>>
vars == <<featVars, apiVars, matchVars, batchVars, offerVars, netLog, cache>>

(***************************************************************************)
(* Bounds of the model.                                                    *)
(***************************************************************************)
MaxRecords == 2
MaxWindow == 2

(***************************************************************************)
(* Exact fractions (float arithmetic without rounding).                    *)
(***************************************************************************)
Abs(x) == IF x < 0 THEN -x ELSE x

RECURSIVE GCD(_, _)
GCD(a, b) == IF b = 0 THEN a ELSE GCD(b, a % b)

NaN == <<0, 0>>
IsNaN(x) == x[2] = 0
Frac(n, d) ==
    IF d = 0 THEN NaN
    ELSE LET g == GCD(Abs(n), Abs(d))
             s == IF d < 0 THEN -1 ELSE 1
         IN <<(s * n) \div g, (s * d) \div g>>
Whole(n) == <<n, 1>>
FAdd(x, y) == IF IsNaN(x) \/ IsNaN(y) THEN NaN
              ELSE Frac(x[1] * y[2] + y[1] * x[2], x[2] * y[2])
FMul(x, y) == IF IsNaN(x) \/ IsNaN(y) THEN NaN
              ELSE Frac(x[1] * y[1], x[2] * y[2])
FDiv(x, y) == IF IsNaN(x) \/ IsNaN(y) \/ y[1] = 0 THEN NaN
              ELSE Frac(x[1] * y[2], x[2] * y[1])

(***************************************************************************)
(* The Record Store: player_maps is the PlayerMapRecord table, one record  *)
(* per row, in row order.                                                  *)
(***************************************************************************)
PlayerMapRow == [player: {"p1", "p2"}, opponent: {"TA", "TB"},
                 map_name: {"MapA", "MapB"}, date: 1..2, kills: {10, 20}]

RowSeqs(n) == UNION {[1..k -> PlayerMapRow] : k \in 0..n}

RECURSIVE SumStat(_, _)
SumStat(df, stat) ==
    IF df = <<>> THEN 0 ELSE Head(df)[stat] + SumStat(Tail(df), stat)

\* Series.mean(): NaN on an empty series.
Mean(df, stat) == Frac(SumStat(df, stat), Len(df))

\* DataFrame.sort_values('date', ascending=False): every ordering of the rows
\* by descending date (the default sort is not stable, ties may fall either way).
SortValuesDesc(df) ==
    LET n == Len(df)
    IN {[i \in 1..n |-> df[f[i]]] :
          f \in {g \in [1..n -> 1..n] :
                   /\ \A i, j \in 1..n : g[i] = g[j] => i = j
                   /\ \A i, j \in 1..n : i < j => df[g[i]].date >= df[g[j]].date}}

\* DataFrame.head(n) for n >= 0.
HeadRows(df, n) == SubSeq(df, 1, IF n < Len(df) THEN n ELSE Len(df))

\* Series.median(): the middle value, or the mean of the two middle values.
SortedValues(df, stat) ==
    LET n == Len(df)
    IN CHOOSE s \in [1..n -> {df[i][stat] : i \in 1..n}] :
          /\ \A i, j \in 1..n : i < j => s[i] <= s[j]
          /\ \A v \in {df[i][stat] : i \in 1..n} :
                Cardinality({i \in 1..n : s[i] = v})
                    = Cardinality({i \in 1..n : df[i][stat] = v})
Median(df, stat) ==
    LET n == Len(df)
        s == SortedValues(df, stat)
    IN IF n = 0 THEN NaN
       ELSE IF n % 2 = 1 THEN Whole(s[(n + 1) \div 2])
       ELSE Frac(s[n \div 2] + s[n \div 2 + 1], 2)

\* Series.std(ddof=1), kept as its square (the sample variance):
\* sum((x - mean)^2) / (n - 1) = (n * sum(x^2) - sum(x)^2) / (n * (n - 1)).
RECURSIVE SumSq(_, _)
SumSq(df, stat) ==
    IF df = <<>> THEN 0
    ELSE Head(df)[stat] * Head(df)[stat] + SumSq(Tail(df), stat)
StdSquared(df, stat) ==
    LET n == Len(df)
    IN Frac(n * SumSq(df, stat) - SumStat(df, stat) * SumStat(df, stat),
            n * (n - 1))

LastN == 15

\* sorted is the filtered frame after sort_values.
last15_features(sorted, stat) ==
    LET dfp == HeadRows(sorted, LastN)
    IN IF dfp = <<>>
       THEN [count |-> 0, mean |-> NaN, median |-> NaN, std |-> NaN,
             over_rate |-> NaN]
       ELSE [count |-> Len(dfp),
             mean |-> Mean(dfp, stat),
             median |-> Median(dfp, stat),
             std |-> IF Len(dfp) > 1 THEN StdSquared(dfp, stat) ELSE Whole(0)]

\* (dfp[stat] > line).mean()
OverOrEqual(v, line) == v >= line
Over(v, line) == v > line
OverCount(dfp, stat, line) ==
    Cardinality({i \in 1..Len(dfp) : Over(dfp[i][stat], line)})

ZeroRateWhenEmpty(sorted, line, stat, window) ==
    LET dfp == HeadRows(sorted, window)
    IN [h2h_count |-> Len(dfp),
        h2h_over_rate |-> IF dfp = <<>> THEN Whole(0)
                          ELSE Frac(OverCount(dfp, stat, line), Len(dfp))]
head_to_head_over_rate(sorted, line, stat, window) ==
    LET dfp == HeadRows(sorted, window)
    IN IF dfp = <<>>
       THEN [h2h_count |-> 0, h2h_over_rate |-> NaN]
       ELSE [h2h_count |-> Len(dfp),
             h2h_over_rate |-> Frac(OverCount(dfp, stat, line), Len(dfp))]

\* The row filters of the three functions.
ByPlayer(df, player) == SelectSeq(df, LAMBDA r : r.player = player)
ByPlayerOpponent(df, player, opponent) ==
    SelectSeq(df, LAMBDA r : r.player = player /\ r.opponent = opponent)
ByPlayerMap(df, player, map_name) ==
    SelectSeq(df, LAMBDA r : r.player = player /\ r.map_name = map_name)

\* One turn of the loop over map_pool_row.items(); acc is
\* [exp_val, total_p, results].
MixtureStep(acc, df, player, item, stat) ==
    LET map_name == item[1]
        p == item[2]
        m == ByPlayerMap(df, player, map_name)
        mu == IF Len(m) > 0 THEN Mean(m, stat) ELSE NaN
    IN IF map_name \in {"match_id", "team"} THEN acc
       ELSE IF p <= 0 THEN acc
       ELSE [exp_val |-> IF IsNaN(mu) THEN acc.exp_val
                         ELSE FAdd(acc.exp_val, FMul(Frac(p, 10), mu)),
             total_p |-> IF IsNaN(mu) THEN acc.total_p
                         ELSE FAdd(acc.total_p, Frac(p, 10)),
             results |-> Append(acc.results,
                                [map |-> map_name, p |-> Frac(p, 10), mu |-> mu])]

RECURSIVE MixtureLoop(_, _, _, _, _)
MixtureLoop(acc, df, player, items, stat) ==
    IF items = <<>> THEN acc
    ELSE MixtureLoop(MixtureStep(acc, df, player, Head(items), stat),
                     df, player, Tail(items), stat)

MixtureResult(acc) ==
    IF acc.total_p = Whole(0)
    THEN [map_mixture_mu |-> NaN, per_map |-> acc.results]
    ELSE [map_mixture_mu |-> acc.exp_val, per_map |-> acc.results]

map_mixture_expectation(df, player, map_pool_row, stat) ==
    MixtureResult(MixtureLoop([exp_val |-> Whole(0), total_p |-> Whole(0),
                               results |-> <<>>],
                              df, player, map_pool_row, stat))

(***************************************************************************)
(* Calls of the Feature Engine.  The selectors of a call: the player and   *)
(* the opponent may be absent from the records ("p3", "TC").               *)
(***************************************************************************)
CallPlayers == {"p1", "p3"}
PoolValues == {-2, 0, 4, 6}
MapPoolRows == {<<<<"match_id", 7>>, <<"MapA", a>>, <<"MapB", b>>>> :
                  a \in PoolValues, b \in PoolValues}
                \cup {<<>>}

NoCall == [op |-> "none"]

InitFeat ==
    /\ player_maps \in RowSeqs(MaxRecords)
    /\ featCall = NoCall
    /\ featRes = NoCall
    /\ aCall = [status |-> "pending"] /\ aRes = [status |-> "pending"]
    /\ mUrl = [status |-> "pending"] /\ mApi = [status |-> "pending"]
    /\ mOut = [status |-> "pending"] /\ fetches = <<>>
    /\ bUrls = <<>> /\ bPos = 0 /\ bStatus = "off" /\ matches_meta = <<>>
    /\ all_maps = <<>> /\ all_pmaps = <<>> /\ bSkipped = {}
    /\ bOut = [status |-> "pending"]
    /\ ppPc = "off" /\ ppParams = [status |-> "pending"] /\ ppFirst = 0
    /\ ppPage = 0 /\ ppOut = <<>> /\ ppRes = [status |-> "pending"]
    /\ ppJson = [status |-> "pending"] /\ ppRows = [status |-> "pending"]
    /\ ppDf = [status |-> "pending"]
    /\ netLog = <<>>
    /\ cache = <<>>

\* The three functions are pure: each behaviour is one call on one record store.
Last15Features ==
    /\ featCall = NoCall
    /\ \E player \in CallPlayers :
      \E sorted \in SortValuesDesc(ByPlayer(player_maps, player)) :
        /\ featCall' = [op |-> "last15", player |-> player]
        /\ featRes' = last15_features(sorted, "kills")
        /\ UNCHANGED <<offerVars, player_maps, apiVars, matchVars, batchVars, netLog, cache>>

HeadToHeadOverRate ==
    /\ featCall = NoCall
    /\ \E player \in CallPlayers, opponent \in {"TA", "TC"},
       line \in {10, 15}, window \in 1..MaxWindow :
      \E sorted \in SortValuesDesc(ByPlayerOpponent(player_maps, player, opponent)) :
        /\ featCall' = [op |-> "h2h", player |-> player, opponent |-> opponent,
                        line |-> line, window |-> window]
        /\ featRes' = head_to_head_over_rate(sorted, line, "kills", window)
        /\ UNCHANGED <<offerVars, player_maps, apiVars, matchVars, batchVars, netLog, cache>>

MapMixtureExpectation ==
    /\ featCall = NoCall
    /\ \E player \in CallPlayers, row \in MapPoolRows :
        /\ featCall' = [op |-> "mixture", player |-> player, row |-> row]
        /\ featRes' = map_mixture_expectation(player_maps, player, row, "kills")
        /\ UNCHANGED <<offerVars, player_maps, apiVars, matchVars, batchVars, netLog, cache>>

NextFeat ==
    \/ Last15Features
    \/ HeadToHeadOverRate
    \/ MapMixtureExpectation

SpecFeat == InitFeat /\ [][NextFeat]_vars

(***************************************************************************)
(* Acquisition Reconciler (src/ingest/vlr.py).                             *)
(*                                                                         *)
(* JSON and HTML scalars are strings; Null is Python's None, EmptyStr the  *)
(* empty string and Zero the JSON number 0.  A dict is a record that has   *)
(* every key the code reads, an absent key holding Null (dict.get gives    *)
(* None for both), and an absent list holding <<>>.                        *)
(***************************************************************************)
Null == "<None>"
EmptyStr == ""
Zero == "0"

\* Python truth value of a scalar, and `a or b`.
Truthy(v) == v \notin {Null, EmptyStr, Zero}
Or(a, b) == IF Truthy(a) THEN a ELSE b
\* `a or b` on lists.
ListOr(a, b) == IF a # <<>> THEN a ELSE b

\* dict.get(key) of a dict whose keys vary (the result of normalize_offer_fields).
Get(d, k) == IF k \in DOMAIN d THEN d[k] ELSE Null

\* A pandas DataFrame: its columns and its rows.
MapColumns == {"match_id", "map_num", "map_name", "winner", "score",
               "picked_by", "first_pick_order"}
PlayerMapColumns == {"match_id", "map_num", "date", "player", "team", "opponent",
                     "map_name", "agent", "kills", "deaths", "assists", "ACS",
                     "rounds_played"}
MatchColumns == {"match_id", "event", "date", "bo_format", "team_a", "team_b",
                 "vetoes_json", "src_url"}

\* pd.DataFrame(columns=cols)
EmptyFrame(cols) == [columns |-> cols, rows |-> <<>>]
\* pd.DataFrame(list_of_dicts): the columns are the keys of the dicts, none when
\* the list is empty.
FrameOfRows(rows) ==
    [columns |-> UNION {DOMAIN rows[i] : i \in 1..Len(rows)}, rows |-> rows]
\* DataFrame.empty
IsEmpty(df) == df.rows = <<>> \/ df.columns = {}
\* pd.concat([a, b], ignore_index=True)
Concat(a, b) == [columns |-> a.columns \cup b.columns, rows |-> a.rows \o b.rows]

\* src.utils.aliases defines no normalize_offer_fields: the import fails and the
\* stub is used, which returns its keyword arguments unchanged.
normalize_offer_fields(kwargs) == kwargs

\* datetime.fromtimestamp(int(epoch), tz=utc).isoformat(); Null when int() raises.
IsoOfEpoch(e) ==
    IF e = "1700000000" THEN "2023-11-14T22:13:20+00:00"
    ELSE IF e = Zero THEN "1970-01-01T00:00:00+00:00"
    ELSE Null

\* _extract_match_id_from_url: the first run of digits after a slash, else the
\* stripped input.  A locator is [text, id]: id is that run of digits, or Null.
_extract_match_id_from_url(u) == IF u.digits # Null THEN u.digits ELSE u.text

(***************************************************************************)
(* api_fetch_match.  responses[i] is what the i-th candidate request       *)
(* returns: [kind |-> "exc"] (transport error or no JSON), or              *)
(* [kind |-> "json", shape, wrap, body] where shape is "dict", "list" or   *)
(* "null"; for a dict, wrap says where the match payload sits ("data",     *)
(* "match", "top": the dict itself, "scalar": a non-dict under "data").    *)
(***************************************************************************)
NumCandidates == 3

\* The index of the candidate whose response ends the loop, 0 if all raised.
RECURSIVE CandidateLoop(_, _)
CandidateLoop(responses, i) ==
    IF i > NumCandidates THEN 0
    ELSE IF responses[i].kind = "exc" THEN CandidateLoop(responses, i + 1)
    ELSE i

\* The number of requests the loop issued.
RequestsIssued(responses) ==
    LET i == CandidateLoop(responses, 1)
    IN IF i = 0 THEN NumCandidates ELSE i

ApiMeta(meta_raw) ==
    LET epoch == Or(meta_raw.epoch, meta_raw.timestamp)
        fromEpoch == IF Truthy(epoch) THEN IsoOfEpoch(epoch) ELSE Null
    IN [team_a |-> Or(Or(meta_raw.team1, meta_raw.team_a), meta_raw.teamA),
        team_b |-> Or(Or(meta_raw.team2, meta_raw.team_b), meta_raw.teamB),
        event |-> Or(meta_raw.event, meta_raw.tournament),
        bo_format |-> Or(meta_raw.format, meta_raw.bo),
        date |-> IF Truthy(fromEpoch) THEN fromEpoch ELSE meta_raw.date]

ApiMapRow(match_id, i, mobj) ==
    [match_id |-> match_id,
     map_num |-> i,
     map_name |-> Or(mobj.map, mobj.name),
     winner |-> mobj.winner,
     score |-> mobj.score,
     picked_by |-> Or(mobj.picked_by, mobj.pick),
     first_pick_order |-> Null]

ApiPlayerRow(match_id, i, meta, mobj, prow) ==
    LET pa == normalize_offer_fields(
                [player |-> Or(prow.name, prow.player),
                 team |-> prow.team,
                 opponent |-> IF prow.team = meta.team_a THEN meta.team_b
                              ELSE meta.team_a,
                 map_name |-> Or(mobj.map, mobj.name),
                 agent |-> prow.agent,
                 stat_type |-> "kills"])
    IN [match_id |-> match_id,
        map_num |-> i,
        date |-> meta.date,
        player |-> Get(pa, "player"),
        team |-> Or(Get(pa, "team_name"), prow.team),
        opponent |-> Get(pa, "opponent_name"),
        map_name |-> Get(pa, "map_name"),
        agent |-> Get(pa, "agent"),
        kills |-> prow.kills,
        deaths |-> prow.deaths,
        assists |-> prow.assists,
        ACS |-> prow.acs,
        rounds_played |-> prow.rounds]

\* for side in ("team1_players", "team2_players", "players"): for prow in ...

RECURSIVE ApiPlayerRows(_, _, _, _)
ApiPlayerRows(match_id, meta, maps_raw, i) ==
    IF i > Len(maps_raw) THEN <<>>
    ELSE LET players == maps_raw[i].team1_players \o maps_raw[i].team2_players
                        \o maps_raw[i].players
         IN [k \in 1..Len(players) |->
                ApiPlayerRow(match_id, i, meta, maps_raw[i], players[k])]
            \o ApiPlayerRows(match_id, meta, maps_raw, i + 1)

ApiMapsFrame(match_id, maps_raw) ==
    IF maps_raw # <<>>
    THEN FrameOfRows([i \in 1..Len(maps_raw) |-> ApiMapRow(match_id, i, maps_raw[i])])
    ELSE EmptyFrame(MapColumns)

ApiPlayerMapsFrame(match_id, meta, maps_raw) ==
    Concat(EmptyFrame(PlayerMapColumns),
           [columns |-> PlayerMapColumns,
            rows |-> ApiPlayerRows(match_id, meta, maps_raw, 1)])

ApiVetoes(meta_raw) ==
    LET vetoes == ListOr(meta_raw.vetoes, meta_raw.notes)
    IN [i \in 1..Len(vetoes) |-> [note |-> vetoes[i]]]

\* raise RuntimeError(error) after n requests.
Raise(n, error) == [status |-> "raise", requests |-> n, error |-> error]

\* The part of api_fetch_match after meta is built (n requests were issued).
ApiTuple(match_id, n, meta_raw, meta, maps_raw) ==
    IF ~Truthy(meta.team_a) \/ ~Truthy(meta.team_b) THEN Raise(n, "API missing teams")
    ELSE [status |-> "ok",
          requests |-> n,
          meta |-> meta,
          maps_df |-> ApiMapsFrame(match_id, maps_raw),
          pmaps_df |-> ApiPlayerMapsFrame(match_id, meta, maps_raw),
          vetoes |-> ApiVetoes(meta_raw)]

\* The part of api_fetch_match after the candidate loop ended at candidate c.
ApiParse(match_id, responses, c, n) ==
    IF c = 0 THEN Raise(n, "API miss")
    ELSE IF responses[c].shape # "dict" THEN Raise(n, "API miss")
    ELSE IF responses[c].wrap = "scalar" THEN Raise(n, "API match payload not a dict")
    ELSE ApiTuple(match_id, n, responses[c].body, ApiMeta(responses[c].body),
                  ListOr(responses[c].body.maps, responses[c].body.map_list))

\* The response the candidate loop ends with is taken whatever its shape.
api_fetch_match(match_id, responses) ==
    ApiParse(match_id, responses, CandidateLoop(responses, 1),
             RequestsIssued(responses))

(***************************************************************************)
(* The scraper.  A page is what the selectors of the parser see of the     *)
(* HTML document:                                                          *)
(*   teams      texts of the header's team elements                        *)
(*   event, bo  text of the event link and of the vs-note, Null if absent  *)
(*   epoch      the data-epoch attribute, Null if absent                   *)
(*   date_txt   text of the header date, Null if absent                    *)
(*   notes      texts of the veto boxes and header notes                   *)
(*   games      the .vm-stats-game blocks, each [map, pick, score, tables],*)
(*              score the first "int - int" of the block's text (<<>> if   *)
(*              none), pick the name after "picked by" (Null if none);     *)
(*   a table is [heading, rows], heading the set of names its preceding    *)
(*   game header mentions; a row is [ncols, name, agent, kda, acs], kda    *)
(*   the first "int/int/int" of the row (<<>> if none).                    *)
(***************************************************************************)
_parse_match_header(page) ==
    LET fromEpoch == IF page.epoch # Null THEN IsoOfEpoch(page.epoch) ELSE Null
    IN [team_a |-> IF Len(page.teams) >= 2 THEN page.teams[1] ELSE Null,
        team_b |-> IF Len(page.teams) >= 2 THEN page.teams[2] ELSE Null,
        event |-> page.event,
        bo_format |-> page.bo,
        date |-> IF Truthy(fromEpoch) THEN fromEpoch ELSE page.date_txt]

\* A note is [text, words]: words are the words its text contains.
_parse_vetoes(page) ==
    LET kept == SelectSeq(page.notes, LAMBDA n : n.words \cap {"ban", "pick", "decider"} # {})
    IN [i \in 1..Len(kept) |-> [note |-> kept[i].text]]

WinnerOfScore(s_a, s_b, team_a, team_b) == IF s_a > s_b THEN team_a ELSE team_b

ScrapedMapRow(m, map_num, team_a, team_b) ==
    [match_id |-> Null,
     map_num |-> map_num,
     map_name |-> m.map,
     winner |-> IF m.score # <<>>
                THEN WinnerOfScore(m.score[1], m.score[2], team_a, team_b)
                ELSE Null,
     score |-> IF m.score # <<>> THEN ToString(m.score[1]) \o "-" \o ToString(m.score[2])
               ELSE Null,
     picked_by |-> m.pick,
     first_pick_order |-> Null]

\* The team of the team_i-th table of a map block.
TableTeam(tbl, team_i, team_a, team_b) ==
    LET named == IF Truthy(team_a) /\ team_a \in tbl.heading THEN team_a
                 ELSE IF Truthy(team_b) /\ team_b \in tbl.heading THEN team_b
                 ELSE Null
    IN IF Truthy(named) THEN named
       ELSE IF team_i = 1 THEN team_a ELSE team_b

ScrapedPlayerRow(tr, map_num, map_name, team_name, team_a, team_b) ==
    LET other == IF team_name = team_a THEN team_b ELSE team_a
        pa == normalize_offer_fields(
                [player |-> tr.name, team |-> team_name, opponent |-> other,
                 map_name |-> map_name, agent |-> tr.agent, stat_type |-> "kills"])
    IN [match_id |-> Null,
        map_num |-> map_num,
        date |-> Null,
        player |-> Or(Get(pa, "player"), tr.name),
        team |-> Or(Get(pa, "team_name"), team_name),
        opponent |-> Or(Get(pa, "opponent_name"), other),
        map_name |-> Or(Get(pa, "map_name"), map_name),
        agent |-> Or(Get(pa, "agent"), tr.agent),
        kills |-> IF tr.kda # <<>> THEN tr.kda[1] ELSE Null,
        deaths |-> IF tr.kda # <<>> THEN tr.kda[2] ELSE Null,
        assists |-> IF tr.kda # <<>> THEN tr.kda[3] ELSE Null,
        ACS |-> tr.acs,
        rounds_played |-> Null]

\* Rows with fewer than three cells are skipped.
TableRows(tbl, team_i, map_num, map_name, team_a, team_b) ==
    LET trs == SelectSeq(tbl.rows, LAMBDA tr : tr.ncols >= 3)
        team_name == TableTeam(tbl, team_i, team_a, team_b)
    IN [k \in 1..Len(trs) |->
          ScrapedPlayerRow(trs[k], map_num, map_name, team_name, team_a, team_b)]

RECURSIVE GameRows(_, _, _, _, _)
GameRows(m, team_i, map_num, team_a, team_b) ==
    IF team_i > Len(m.tables) THEN <<>>
    ELSE TableRows(m.tables[team_i], team_i, map_num, m.map, team_a, team_b)
         \o GameRows(m, team_i + 1, map_num, team_a, team_b)

RECURSIVE ScrapedPlayerRows(_, _, _, _)
ScrapedPlayerRows(games, map_num, team_a, team_b) ==
    IF map_num > Len(games) THEN <<>>
    ELSE GameRows(games[map_num], 1, map_num, team_a, team_b)
         \o ScrapedPlayerRows(games, map_num + 1, team_a, team_b)

\* Returns <<df_maps, df_pmaps>>.
_parse_maps_and_players(page, team_a, team_b) ==
    <<FrameOfRows([i \in 1..Len(page.games) |->
                     ScrapedMapRow(page.games[i], i, team_a, team_b)]),
      FrameOfRows(ScrapedPlayerRows(page.games, 1, team_a, team_b))>>

\* if not df.empty: df[col] = value (on every row of the frame)
SetIfNotEmpty(df, col, value) ==
    IF ~IsEmpty(df)
    THEN [columns |-> df.columns \cup {col},
          rows |-> [i \in 1..Len(df.rows) |-> [df.rows[i] EXCEPT ![col] = value]]]
    ELSE df

\* The end of scrape_match: match_id on both frames, the date on the player rows.
ScrapeTuple(meta, dfs, match_id, vetoes) ==
    [status |-> "ok", meta |-> meta,
     maps_df |-> SetIfNotEmpty(dfs[1], "match_id", match_id),
     pmaps_df |-> SetIfNotEmpty(SetIfNotEmpty(dfs[2], "match_id", match_id),
                                "date", meta.date),
     vetoes |-> vetoes]

ScrapeParsed(match_url, page, meta) ==
    ScrapeTuple(meta,
                _parse_maps_and_players(page, Or(meta.team_a, EmptyStr),
                                        Or(meta.team_b, EmptyStr)),
                _extract_match_id_from_url(match_url),
                _parse_vetoes(page))

\* scrape_match once the document is fetched.
ScrapePage(match_url, page) ==
    ScrapeParsed(match_url, page, _parse_match_header(page))

(***************************************************************************)
(* fetch_html and the disk cache (use_cache is True in every call of the   *)
(* program).  cache maps the names of the cache files that exist to the    *)
(* document stored in them.  A live fetch appends to the request log the   *)
(* pause and the request; fail says that the request raises.               *)
(***************************************************************************)
Sleep == "sleep"

\* _cache_path: the first 32 hexadecimal digits of the SHA-256 of the URL.
_cache_path(url) ==
    CASE url = "https://www.vlr.gg/101/ta-vs-tb" -> "ae698b8e86b4ddbb600b95d63dae88d9"
      [] url = "https://www.vlr.gg/101/match" -> "6e5454291b199ff467a8aa975997db95"
      [] url = "https://www.vlr.gg/202/tc-vs-td" -> "c43d40a474d6acedf3203415e35b2b6e"
      [] url = "https://www.vlr.gg/202/match" -> "815c6603df1bd1ecce8a37afe9cda7c1"

\* time.sleep(delay); requests.get(url)
LiveFetchLog == <<Sleep, "GET vlr.gg">>

FetchWithoutCache(url, cch, fail, page) ==
    IF fail THEN [status |-> "raise", cache |-> cch, log |-> LiveFetchLog]
    ELSE [status |-> "ok", html |-> page,
          cache |-> [cp \in DOMAIN cch \cup {_cache_path(url)} |->
                        IF cp = _cache_path(url) THEN page ELSE cch[cp]],
          log |-> LiveFetchLog]
fetch_html(url, cch, fail, page) ==
    IF _cache_path(url) \in DOMAIN cch
    THEN [status |-> "ok", html |-> cch[_cache_path(url)], cache |-> cch,
          log |-> <<>>]
    ELSE IF fail
    THEN [status |-> "raise", cache |-> cch, log |-> LiveFetchLog]
    ELSE [status |-> "ok", html |-> page,
          cache |-> (_cache_path(url) :> page) @@ cch,
          log |-> LiveFetchLog]

Returned(path, api, scraped, r, cch, log) ==
    [status |-> "ok", path |-> path, api |-> api, scraped |-> scraped,
     meta |-> r.meta, maps_df |-> r.maps_df, pmaps_df |-> r.pmaps_df,
     vetoes |-> r.vetoes, cache |-> cch, log |-> log]

\* scrape_match: [status, cache, log] and, when it returns, the parsed tuple.
ScrapeFetched(match_url, f) ==
    IF f.status = "raise"
    THEN [status |-> "raise", cache |-> f.cache, log |-> f.log]
    ELSE [status |-> "ok", cache |-> f.cache, log |-> f.log,
          tuple |-> ScrapePage(match_url, f.html)]
scrape_match(match_url, cch, fail, page) ==
    ScrapeFetched(match_url, fetch_html(match_url.text, cch, fail, page))

\* f"https://www.vlr.gg/{match_id}/match"
DigitIds == {"101", "202"}
CanonicalUrl(match_id) ==
    [text |-> "https://www.vlr.gg/" \o match_id \o "/match",
     http |-> TRUE,
     digits |-> IF match_id \in DigitIds THEN match_id ELSE Null]

\* for k, v in meta_s.items(): if not meta.get(k): meta[k] = v
MergeMeta(meta, meta_s) ==
    [k \in DOMAIN meta |-> IF ~Truthy(meta[k]) THEN meta_s[k] ELSE meta[k]]

\* if df.empty: df = df_s
AlwaysFallback(df, df_s) == df_s
MergeFrame(df, df_s) == IF IsEmpty(df) THEN df_s ELSE df

Merged(api, s) ==
    [meta |-> MergeMeta(api.meta, s.meta),
     maps_df |-> MergeFrame(api.maps_df, s.maps_df),
     pmaps_df |-> MergeFrame(api.pmaps_df, s.pmaps_df),
     vetoes |-> ListOr(api.vetoes, s.vetoes)]

\* The except clause of parse_match: the unconditional fallback.
FallbackResult(api, r, log) ==
    IF r.status = "raise"
    THEN [status |-> "raise", path |-> "scrape", api |-> api, cache |-> r.cache,
          log |-> log \o r.log]
    ELSE Returned("scrape", api, r.tuple, r.tuple, r.cache, log \o r.log)
Fallback(u, api, cch, fail, page, log) ==
    FallbackResult(api,
                   scrape_match(IF ~u.http
                                THEN CanonicalUrl(_extract_match_id_from_url(u))
                                ELSE u,
                                cch, fail, page),
                   log)

\* parse_match after api_fetch_match has returned or raised (api).  fail1 and
\* fail2 say whether the first and the second live fetch of the call raise.
ApiLog(api) == [i \in 1..api.requests |-> "GET vlrggapi"]

\* The merge after scrape_match (s) returned, the except clause after it raised.
MergeOrFallback(u, api, s, page, fail2) ==
    IF s.status = "ok"
    THEN Returned("merge", api, s.tuple, Merged(api, s.tuple), s.cache,
                  ApiLog(api) \o s.log)
    ELSE Fallback(u, api, s.cache, fail2, page, ApiLog(api) \o s.log)

ParseMatchAfterApi(u, api, cch, page, fail1, fail2) ==
    IF api.status = "ok"
    THEN IF (IsEmpty(api.maps_df) \/ IsEmpty(api.pmaps_df)) /\ u.http
         THEN MergeOrFallback(u, api, scrape_match(u, cch, fail1, page), page, fail2)
         ELSE Returned("api", api, [status |-> "none"], api, cch, ApiLog(api))
    ELSE Fallback(u, api, cch, fail1, page, ApiLog(api))

parse_match(u, responses, cch, page, fail1, fail2) ==
    ParseMatchAfterApi(u, api_fetch_match(_extract_match_id_from_url(u), responses),
                       cch, page, fail1, fail2)

(***************************************************************************)
(* Inputs of the Acquisition Reconciler: locators, structured responses    *)
(* and documents.                                                          *)
(***************************************************************************)
UrlLocator == [text |-> "https://www.vlr.gg/101/ta-vs-tb", http |-> TRUE,
               digits |-> "101"]
IdLocator == [text |-> "101", http |-> FALSE, digits |-> Null]
Locators == {UrlLocator, IdLocator}

ApiPlayer(name, team) ==
    [name |-> name, player |-> Null, team |-> team, agent |-> "Jett",
     kills |-> "21", deaths |-> "10", assists |-> "5", acs |-> "250",
     rounds |-> "20"]
ApiMap(winner, players) ==
    [map |-> "MapA", name |-> Null, winner |-> winner, score |-> "13-7",
     picked_by |-> Null, pick |-> "TA",
     team1_players |-> players, team2_players |-> <<>>, players |-> <<>>]

\* The match payloads: the values under the alias keys of each field, the
\* list of map objects and the vetoes.
ApiBodies ==
    {[team1 |-> ta[1], team_a |-> ta[2], teamA |-> ta[3],
      team2 |-> tb[1], team_b |-> tb[2], teamB |-> tb[3],
      event |-> ev[1], tournament |-> ev[2],
      format |-> fo[1], bo |-> fo[2],
      epoch |-> da[1], timestamp |-> da[2], date |-> da[3],
      maps |-> ml, map_list |-> <<>>,
      vetoes |-> ve[1], notes |-> ve[2]] :
        ta \in {<<"TA", Null, Null>>, <<Null, Null, Null>>, <<EmptyStr, "TA", Null>>},
        tb \in {<<"TB", Null, Null>>, <<Null, Null, Null>>},
        ev \in {<<Null, Null>>, <<"EV", Null>>, <<Null, EmptyStr>>},
        fo \in {<<Null, Null>>, <<"Bo3", Null>>},
        da \in {<<Null, Null, Null>>, <<"1700000000", Null, "Nov 14">>,
                <<Zero, Null, "Nov 14">>},
        ml \in {<<>>,
                <<ApiMap("TA", <<>>)>>,
                <<ApiMap("TC", <<ApiPlayer("p1", "TA")>>)>>,
                <<ApiMap(Null, <<ApiPlayer("p1", "TA")>>)>>},
        ve \in {<<<<>>, <<>>>>, <<<<"TA ban MapB">>, <<>>>>}}

Exc == [kind |-> "exc"]
JsonDict(wrap, body) == [kind |-> "json", shape |-> "dict", wrap |-> wrap,
                         body |-> body]

\* The three responses of a call: every candidate that answers with a dict
\* answers with the same payload.
ApiResponses ==
    {[i \in 1..NumCandidates |->
        IF kinds[i] = "exc" THEN Exc
        ELSE IF kinds[i] = "list" THEN [kind |-> "json", shape |-> "list"]
        ELSE JsonDict(wrap, body)] :
        kinds \in [1..NumCandidates -> {"exc", "list", "dict"}],
        wrap \in {"data", "top"}, body \in ApiBodies}
    \cup {<<JsonDict("scalar", Null), Exc, Exc>>,
          <<[kind |-> "json", shape |-> "null"], Exc, Exc>>}

PlayerTr(name) ==
    [ncols |-> 5, name |-> name, agent |-> "Jett",
     kda |-> <<"21", "10", "5">>, acs |-> "250"]
PageGames ==
    {<<>>} \cup
    {<<[map |-> "MapA", pick |-> Null, score |-> sc, tables |-> tb]>> :
        sc \in {<<>>, <<13, 7>>, <<12, 12>>},
        tb \in {<<>>,
                <<[heading |-> {"TA", "TB"}, rows |-> <<PlayerTr("p1")>>],
                  [heading |-> {}, rows |-> <<PlayerTr("p2")>>]>>}}
Pages ==
    {[teams |-> te, event |-> eb[1], bo |-> eb[2], epoch |-> da[1],
      date_txt |-> da[2], notes |-> no, games |-> ga] :
        te \in {<<>>, <<"TA", "TB">>, <<"Team A", "TB">>},
        eb \in {<<Null, Null>>, <<"EV2", "Bo3">>},
        da \in {<<Null, Null>>, <<"bad", "Nov 14">>},
        no \in {<<>>, <<[text |-> "TA ban MapB", words |-> {"ban"}],
                       [text |-> "Patch 7.09", words |-> {}]>>},
        ga \in PageGames}

\* Which of the two live fetches of a call raise.
FetchFailures == {<<FALSE, FALSE>>, <<TRUE, FALSE>>, <<TRUE, TRUE>>}

Pending == [status |-> "pending"]

FeatQuiet == player_maps = <<>> /\ featCall = [op |-> "off"] /\ featRes = [op |-> "off"]
ApiQuiet == aCall = Pending /\ aRes = Pending
MatchQuiet == mUrl = Pending /\ mApi = Pending /\ mOut = Pending /\ fetches = <<>>
BatchQuiet ==
    /\ bUrls = <<>> /\ bPos = 0 /\ bStatus = "off" /\ matches_meta = <<>>
    /\ all_maps = <<>> /\ all_pmaps = <<>> /\ bSkipped = {} /\ bOut = Pending

FetchQuiet ==
    /\ ppPc = "off" /\ ppParams = Pending /\ ppFirst = 0 /\ ppPage = 0
    /\ ppOut = <<>> /\ ppRes = Pending
ExtractQuiet == ppJson = Pending /\ ppRows = Pending /\ ppDf = Pending
OfferQuiet == FetchQuiet /\ ExtractQuiet

(***************************************************************************)
(* api_fetch_match on its own.                                             *)
(***************************************************************************)
InitApi ==
    /\ aCall = Pending /\ aRes = Pending
    /\ FeatQuiet /\ MatchQuiet /\ BatchQuiet /\ OfferQuiet
    /\ netLog = <<>> /\ cache = <<>>

ApiFetchMatch ==
    /\ aCall = Pending
    /\ \E match_id \in DigitIds, responses \in ApiResponses :
         /\ aCall' = [status |-> "called", match_id |-> match_id,
                      responses |-> responses]
         /\ aRes' = api_fetch_match(match_id, responses)
    /\ UNCHANGED <<offerVars, featVars, matchVars, batchVars, netLog, cache>>

NextApi == ApiFetchMatch

SpecApi == InitApi /\ [][NextApi]_vars

(***************************************************************************)
(* parse_match (resolve_match), in two steps: the primary path, then the   *)
(* decision to return, merge or fall back.                                 *)
(***************************************************************************)
InitMatch ==
    /\ mUrl \in Locators /\ mApi = Pending /\ mOut = Pending /\ fetches = <<>>
    /\ netLog = <<>> /\ cache = <<>>
    /\ FeatQuiet /\ ApiQuiet /\ BatchQuiet /\ OfferQuiet

PrimaryPath ==
    /\ mApi = Pending
    /\ \E responses \in ApiResponses :
         mApi' = api_fetch_match(_extract_match_id_from_url(mUrl), responses)
    /\ UNCHANGED <<offerVars, mUrl, mOut, fetches, netLog, cache, featVars, apiVars,
                   batchVars>>

ResolveMatch ==
    /\ mApi # Pending /\ mOut = Pending
    /\ \E page \in Pages, fails \in FetchFailures :
         \E r \in {ParseMatchAfterApi(mUrl, mApi, cache, page, fails[1], fails[2])} :
            /\ mOut' = r
            /\ netLog' = netLog \o r.log
            /\ cache' = r.cache
    /\ UNCHANGED <<offerVars, mUrl, mApi, fetches, featVars, apiVars, batchVars>>

NextMatch ==
    \/ PrimaryPath
    \/ ResolveMatch

SpecMatch == InitMatch /\ [][NextMatch]_vars

(***************************************************************************)
(* fetch_html on its own: a sequence of calls in one process.  The         *)
(* document that the site serves may change from one call to the next.     *)
(***************************************************************************)
MaxCalls == 3

InitFetch ==
    /\ fetches = <<>> /\ netLog = <<>> /\ cache = <<>>
    /\ mUrl = Pending /\ mApi = Pending /\ mOut = Pending
    /\ FeatQuiet /\ ApiQuiet /\ BatchQuiet /\ OfferQuiet

FetchHtml ==
    /\ Len(fetches) < MaxCalls
    /\ \E url \in {UrlLocator.text, CanonicalUrl("101").text},
          fail \in BOOLEAN, page \in {"<html>1</html>", "<html>2</html>"} :
         \E r \in {fetch_html(url, cache, fail, page)} :
            /\ fetches' = Append(fetches,
                                 [url |-> url, status |-> r.status,
                                  live |-> r.log # <<>>,
                                  html |-> IF r.status = "ok" THEN r.html ELSE Null,
                                  served |-> IF fail THEN Null ELSE page])
            /\ netLog' = netLog \o r.log
            /\ cache' = r.cache
    /\ UNCHANGED <<mUrl, mApi, mOut, featVars, apiVars, batchVars, offerVars>>

NextFetch == FetchHtml

SpecFetch == InitFetch /\ [][NextFetch]_vars

(***************************************************************************)
(* scrape_matches (resolve_matches): one step per locator of the list,     *)
(* then the construction of the three frames.                              *)
(***************************************************************************)
MaxBatch == 3

\* json.dumps of a list of {"note": text}.
RECURSIVE JsonItems(_)
JsonItems(vetoes) ==
    IF vetoes = <<>> THEN ""
    ELSE "{\"note\": \"" \o Head(vetoes).note \o "\"}"
         \o (IF Len(vetoes) > 1 THEN ", " ELSE "") \o JsonItems(Tail(vetoes))

MatchRow(u, r) ==
    LET match_id == _extract_match_id_from_url(u)
    IN [match_id |-> match_id,
        event |-> r.meta.event,
        date |-> r.meta.date,
        bo_format |-> r.meta.bo_format,
        team_a |-> r.meta.team_a,
        team_b |-> r.meta.team_b,
        vetoes_json |-> "[" \o JsonItems(r.vetoes) \o "]",
        src_url |-> IF u.http THEN u.text
                    ELSE CanonicalUrl(match_id).text]

\* The body of the loop; acc is [status, matches_meta, all_maps, all_pmaps].
AbortOnFailure(acc, u, r) ==
    IF r.status = "raise" THEN [acc EXCEPT !.status = "raised"]
    ELSE [acc EXCEPT !.matches_meta = Append(@, MatchRow(u, r))]
LoopBody(acc, u, r) ==
    IF r.status = "raise" THEN acc
    ELSE [status |-> acc.status,
          matches_meta |-> Append(acc.matches_meta, MatchRow(u, r)),
          all_maps |-> IF ~IsEmpty(r.maps_df) THEN Append(acc.all_maps, r.maps_df)
                       ELSE acc.all_maps,
          all_pmaps |-> IF ~IsEmpty(r.pmaps_df)
                        THEN Append(acc.all_pmaps, r.pmaps_df)
                        ELSE acc.all_pmaps]

\* pd.concat(frames, ignore_index=True)
RECURSIVE ConcatAll(_)
ConcatAll(frames) ==
    IF Len(frames) = 1 THEN Head(frames)
    ELSE Concat(Head(frames), ConcatAll(Tail(frames)))

MapsFrame(frames) ==
    IF frames # <<>> THEN ConcatAll(frames) ELSE EmptyFrame(MapColumns)
PlayerMapsFrame(frames) ==
    IF frames # <<>> THEN ConcatAll(frames) ELSE EmptyFrame(PlayerMapColumns)

\* The inputs of a batch: a complete structured response, one without maps, or
\* none; a full document or a bare one.
BatchLocators ==
    {UrlLocator, IdLocator,
     [text |-> "https://www.vlr.gg/202/tc-vs-td", http |-> TRUE, digits |-> "202"]}
FullBody ==
    [team1 |-> "TA", team_a |-> Null, teamA |-> Null,
     team2 |-> "TB", team_b |-> Null, teamB |-> Null,
     event |-> "EV", tournament |-> Null, format |-> "Bo3", bo |-> Null,
     epoch |-> "1700000000", timestamp |-> Null, date |-> Null,
     maps |-> <<ApiMap("TA", <<ApiPlayer("p1", "TA")>>)>>, map_list |-> <<>>,
     vetoes |-> <<"TA ban MapB">>, notes |-> <<>>]
FullPage ==
    [teams |-> <<"TA", "TB">>, event |-> "EV2", bo |-> "Bo3", epoch |-> Null,
     date_txt |-> "Nov 14", notes |-> <<>>,
     games |-> <<[map |-> "MapA", pick |-> Null, score |-> <<13, 7>>,
                  tables |-> <<[heading |-> {}, rows |-> <<PlayerTr("p1")>>],
                               [heading |-> {}, rows |-> <<PlayerTr("p2")>>]>>]>>]
BatchPages ==
    {FullPage,
     [teams |-> <<>>, event |-> Null, bo |-> Null, epoch |-> Null,
      date_txt |-> Null, notes |-> <<>>, games |-> <<>>]}

InitBatch ==
    /\ bUrls \in UNION {[1..n -> BatchLocators] : n \in 0..MaxBatch}
    /\ bPos = 1 /\ bStatus = "running"
    /\ matches_meta = <<>> /\ all_maps = <<>> /\ all_pmaps = <<>>
    /\ bSkipped = {} /\ bOut = Pending
    /\ netLog = <<>> /\ cache = <<>>
    /\ FeatQuiet /\ ApiQuiet /\ MatchQuiet /\ OfferQuiet

\* for u in match_urls: ...
ResolveNext ==
    /\ bStatus = "running" /\ bPos <= Len(bUrls)
    /\ \E responses \in {<<JsonDict("data", FullBody), Exc, Exc>>,
                         <<Exc, JsonDict("top", [FullBody EXCEPT !.maps = <<>>]), Exc>>,
                         <<Exc, Exc, Exc>>},
          page \in BatchPages, fails \in FetchFailures :
         \E r \in {parse_match(bUrls[bPos], responses, cache, page,
                               fails[1], fails[2])} :
           \E acc \in {LoopBody([status |-> bStatus, matches_meta |-> matches_meta,
                                  all_maps |-> all_maps, all_pmaps |-> all_pmaps],
                                 bUrls[bPos], r)} :
            /\ bStatus' = acc.status
            /\ matches_meta' = acc.matches_meta
            /\ all_maps' = acc.all_maps
            /\ all_pmaps' = acc.all_pmaps
            /\ bSkipped' = IF r.status = "raise" THEN bSkipped \cup {bPos}
                           ELSE bSkipped
            /\ netLog' = netLog \o r.log
            /\ cache' = r.cache
    /\ bPos' = bPos + 1
    /\ UNCHANGED <<offerVars, bUrls, bOut, featVars, apiVars, matchVars>>

\* The three frames built after the loop.
ReturnFrames ==
    /\ bStatus = "running" /\ bPos > Len(bUrls)
    /\ bStatus' = "returned"
    /\ bOut' = [matches_df |-> FrameOfRows(matches_meta),
                maps_df |-> MapsFrame(all_maps),
                player_maps_df |-> PlayerMapsFrame(all_pmaps)]
    /\ UNCHANGED <<offerVars, bUrls, bPos, matches_meta, all_maps, all_pmaps, bSkipped,
                   netLog, cache, featVars, apiVars, matchVars>>

NextBatch ==
    \/ ResolveNext
    \/ ReturnFrames

SpecBatch == InitBatch /\ [][NextBatch]_vars

(***************************************************************************)
(* fetch_raw_projections and _paginate (src/ingest/prizepicks.py): one     *)
(* step per request.  A response is an error or a `data` array, of which   *)
(* only the length matters.                                                *)
(***************************************************************************)
PER_PAGE == 500
MaxPages == 3


InitOffers ==
    /\ ppPc = "first"
    /\ ppParams \in {[per_page |-> PER_PAGE, single_stat |-> st, league_id |-> l] :
                      l \in {Null, "7"}, st \in BOOLEAN}
    /\ ppFirst = 0 /\ ppPage = 1 /\ ppOut = <<>> /\ ppRes = Pending
    /\ ExtractQuiet
    /\ netLog = <<>> /\ cache = <<>>
    /\ FeatQuiet /\ ApiQuiet /\ MatchQuiet /\ BatchQuiet

\* first = _get(f"{PP_BASE}/projections", params)
FirstRequest ==
    /\ ppPc = "first"
    /\ netLog' = Append(netLog, "GET api.prizepicks.com")
    /\ \/ /\ ppPc' = "raised"
          /\ UNCHANGED ppFirst
       \/ \E size \in {0, 1, PER_PAGE} :
            /\ ppFirst' = size
            /\ ppPc' = "paginate"
    /\ UNCHANGED <<ppParams, ppPage, ppOut, ppRes, ppJson, ppRows, ppDf, cache,
                   featVars, apiVars, matchVars, batchVars>>

\* What one turn of the loop of _paginate does after its request returned a
\* data array of the given size: <<next position, pause or not>>.
AfterPage(size, per_page) ==
    IF size = 0 \/ size < per_page THEN <<"return", <<>>>>
    ELSE <<"paginate", <<Sleep>>>>

\* One turn of the while loop of _paginate.
PageRequest ==
    /\ ppPc = "paginate"
    /\ \/ /\ ppPc' = "raised"
          /\ netLog' = Append(netLog, "GET api.prizepicks.com")
          /\ UNCHANGED <<ppPage, ppOut>>
       \/ \E size \in {0, 1, PER_PAGE} :
            LET after == AfterPage(size, ppParams.per_page)
            IN /\ size = PER_PAGE => ppPage < MaxPages
               /\ ppOut' = IF size = 0 THEN ppOut ELSE Append(ppOut, size)
               /\ ppPage' = IF after[1] = "paginate" THEN ppPage + 1 ELSE ppPage
               /\ ppPc' = after[1]
               /\ netLog' = Append(netLog, "GET api.prizepicks.com") \o after[2]
    /\ UNCHANGED <<ppParams, ppFirst, ppRes, ppJson, ppRows, ppDf, cache,
                   featVars, apiVars, matchVars, batchVars>>

RECURSIVE SumSeq(_)
SumSeq(q) == IF q = <<>> THEN 0 ELSE Head(q) + SumSeq(Tail(q))

\* data = more if more else first's data
ReturnProjections ==
    /\ ppPc = "return"
    /\ ppPc' = "done"
    /\ ppRes' = [status |-> "ok",
                 data |-> IF ppOut # <<>> THEN SumSeq(ppOut) ELSE ppFirst]
    /\ UNCHANGED <<ppParams, ppFirst, ppPage, ppOut, ppJson, ppRows, ppDf, netLog,
                   cache, featVars, apiVars, matchVars, batchVars>>

NextOffers ==
    \/ FirstRequest
    \/ PageRequest
    \/ ReturnProjections

SpecOffers == InitOffers /\ [][NextOffers]_vars

(***************************************************************************)
(* _extract_offer_rows and load_current_offers_valorant.                   *)
(*                                                                         *)
(* A JSON object is a function from the keys it has to their values; a     *)
(* value that the code tests for None or for emptiness before it reads it  *)
(* is tagged: JNone is null, EmptyDict is {}, any other dict has more keys.*)
(***************************************************************************)
JNone == [tag |-> "none"]
EmptyDict == [tag |-> "dict"]
TruthyDict(v) == v.tag = "dict" /\ DOMAIN v # {"tag"}

\* dict.get(k, default)
GetOr(d, k, default) == IF k \in DOMAIN d THEN d[k] ELSE default

\* str.lower() and str.strip().upper() on the strings of the model.
Lower(s) ==
    CASE s = "VALORANT" -> "valorant"
      [] s = "Valorant Champions" -> "valorant champions"
      [] s = " VAL " -> " val "
      [] s = "VAL" -> "val"
      [] s = "LoL" -> "lol"
      [] s = "Kills" -> "kills"
      [] s = "MAP 1 Kills" -> "map 1 kills"
      [] OTHER -> s
StripUpper(s) ==
    CASE s = "valorant" -> "VALORANT"
      [] s = "valorant champions" -> "VALORANT CHAMPIONS"
      [] s = " val " -> "VAL"
      [] s = "val" -> "VAL"
      [] s = "lol" -> "LOL"
      [] OTHER -> s

\* The first disjunct: the lowered names that contain "valorant".
_is_valorant_league(obj) ==
    \E name \in {Lower(GetOr(GetOr(obj, "attributes", <<>>), "name", EmptyStr))} :
        \/ name \in {"valorant", "valorant champions"}
        \/ StripUpper(name) \in {"VAL", "VALORANT"}

\* _index_included: a later object replaces an earlier one with the same key.
RECURSIVE _index_included(_)
_index_included(included) ==
    IF included = <<>> THEN <<>>
    ELSE \* idx[key] = obj, after the objects before it
         (included[Len(included)].type \o ":" \o included[Len(included)].id
             :> included[Len(included)])
         @@ _index_included(SubSeq(included, 1, Len(included) - 1))

\* incl.get(key)
InclGet(incl, key) == IF key \in DOMAIN incl THEN incl[key] ELSE JNone

\* rel.get(k, {}).get("data", default)
RelData(rel, k, default) == GetOr(GetOr(rel, k, <<>>), "data", default)

\* league_ok of one projection.
LeagueOk(incl, rel) ==
    \E league_rel \in {RelData(rel, "league", JNone)} :
      \E league_obj \in {IF TruthyDict(league_rel)
                         THEN InclGet(incl, "leagues:" \o Get(league_rel, "id"))
                         ELSE JNone} :
        IF TruthyDict(league_obj) THEN _is_valorant_league(league_obj) ELSE TRUE

\* player_id, pobj and the two fields read from it.
PlayerId(rel) ==
    IF TruthyDict(RelData(rel, "new_player", EmptyDict))
    THEN RelData(rel, "new_player", EmptyDict)
    ELSE RelData(rel, "player", EmptyDict)
PlayerObj(incl, player_id) ==
    IF ~TruthyDict(player_id) THEN JNone
    ELSE IF TruthyDict(InclGet(incl, "new_players:" \o Get(player_id, "id")))
    THEN InclGet(incl, "new_players:" \o Get(player_id, "id"))
    ELSE InclGet(incl, "players:" \o Get(player_id, "id"))
\* pattr["team"] is [dict |-> TRUE, abbr] or [dict |-> FALSE, value].
PlayerFields(pobj) ==
    IF ~TruthyDict(pobj) THEN [player_name |-> Null, team_abbrev |-> Null]
    ELSE LET pattr == GetOr(pobj, "attributes", <<>>)
         IN [player_name |-> Or(Get(pattr, "name"), Get(pattr, "display_name")),
             team_abbrev |-> IF "team" \notin DOMAIN pattr THEN Null
                             ELSE IF pattr.team.dict THEN Get(pattr.team, "abbr")
                             ELSE pattr.team.value]

\* The three multi-key fields of attrs.
StatType(attrs) == GetOr(attrs, "stat_type", GetOr(attrs, "stat_name", EmptyStr))
LineOf(attrs) ==
    Or(Or(Get(attrs, "line_score"), Get(attrs, "line")), Get(attrs, "value"))
RawOfferTime(attrs) ==
    Or(Or(Get(attrs, "board_time"), Get(attrs, "start_time")),
       Get(attrs, "updated_at"))

\* sort_values("offer_time", ascending=False, na_position="last") orders the
\* rows by this rank, descending; a datetime has a rank above 0.
TimeRank(t) ==
    CASE t = "datetime(2024-01-01 00:00:00+00:00)" -> 1
      [] t = "datetime(2024-01-02 00:00:00+00:00)" -> 2
      [] OTHER -> 0

\* datetime.fromisoformat(s.replace("Z", "+00:00")), Null when it raises.
FromIsoFormat(s) ==
    CASE s = "2024-01-01T00:00:00Z" -> "datetime(2024-01-01 00:00:00+00:00)"
      [] s = "2024-01-02T00:00:00+00:00" -> "datetime(2024-01-02 00:00:00+00:00)"
      [] OTHER -> Null
\* offer_time after the try block, then `offer_time if isinstance(offer_time,
\* datetime) else None`.
OfferTime(raw) ==
    IF Truthy(raw) /\ TimeRank(FromIsoFormat(raw)) > 0 THEN FromIsoFormat(raw)
    ELSE Null

\* float(line): the values it converts, and the conversion; it raises on the
\* others.
IsNumber(v) == v \in {"17.5", "18", Zero}
FloatOf(v) ==
    CASE v = "17.5" -> Frac(35, 2)
      [] v = "18" -> Whole(18)
      [] v = Zero -> Whole(0)

\* isinstance(stat_type, str) and "map" in stat_type.lower()
MapScope(stat_type) ==
    IF stat_type \notin {Null, Zero} /\ Lower(stat_type) \in {"map 1 kills"}
    THEN "per-map"
    ELSE "per-series"

\* The end of the loop body: the row of projection d, if it has one.
BuildRow(d, attrs, pf, game_rel, stat_type, line) ==
    IF Truthy(pf.player_name) /\ Truthy(stat_type) /\ line # Null
    THEN IF ~IsNumber(line) THEN [kind |-> "raise", error |-> "ValueError"]
         ELSE [kind |-> "row",
               row |-> [offer_id |-> Get(d, "id"),
                        player |-> pf.player_name,
                        stat_type |-> Lower(stat_type),
                        line |-> FloatOf(line),
                        team |-> pf.team_abbrev,
                        opponent |-> Get(attrs, "opponent"),
                        series_id |-> Get(game_rel, "id"),
                        map_scope |-> MapScope(stat_type),
                        offer_time |-> OfferTime(RawOfferTime(attrs))]]
    ELSE [kind |-> "skip"]

\* The loop body for one projection: skipped, a row, or an exception.
\* game_rel.get("id") raises when relationships.game.data is null.
OfferOutcome(d, attrs, rel, incl) ==
    IF ~LeagueOk(incl, rel) THEN [kind |-> "skip"]
    ELSE IF RelData(rel, "game", EmptyDict).tag = "none"
    THEN [kind |-> "raise", error |-> "AttributeError"]
    ELSE BuildRow(d, attrs, PlayerFields(PlayerObj(incl, PlayerId(rel))),
                  RelData(rel, "game", EmptyDict), StatType(attrs), LineOf(attrs))

RECURSIVE ExtractLoop(_, _, _, _)
ExtractLoop(data, incl, i, rows) ==
    IF i > Len(data) THEN [status |-> "ok", df |-> FrameOfRows(rows)]
    ELSE LET o == OfferOutcome(data[i], GetOr(data[i], "attributes", <<>>),
                               GetOr(data[i], "relationships", <<>>), incl)
         IN IF o.kind = "raise"
            THEN [status |-> "raise", error |-> o.error, at |-> i]
            ELSE ExtractLoop(data, incl, i + 1,
                             IF o.kind = "row" THEN Append(rows, o.row) ELSE rows)

_extract_offer_rows(j) ==
    ExtractLoop(GetOr(j, "data", <<>>),
                _index_included(GetOr(j, "included", <<>>)), 1, <<>>)

\* df.drop_duplicates(subset=["offer_id"]): the first row of each offer_id.
DropDuplicates(rows) ==
    SelectSeq([i \in 1..Len(rows) |->
                 [row |-> rows[i],
                  first |-> \A k \in 1..(i - 1) : rows[k].offer_id # rows[i].offer_id]],
              LAMBDA r : r.first)

\* sort_values("offer_time", na_position="last", ascending=False): every
\* ordering by descending time with the missing times last.
SortOffers(rows) ==
    {[i \in 1..Len(rows) |-> rows[f[i]].row] :
        f \in {g \in [1..Len(rows) -> 1..Len(rows)] :
                 /\ \A i, k \in 1..Len(rows) : g[i] = g[k] => i = k
                 /\ \A i, k \in 1..Len(rows) :
                       i < k => TimeRank(rows[g[i]].row.offer_time)
                                  >= TimeRank(rows[g[k]].row.offer_time)}}

\* The inputs of _extract_offer_rows: the included objects, and a list of
\* projections made of one projection of any shape and a complete one.
MaxOffers == 2

Included ==
    <<[tag |-> "dict", type |-> "leagues", id |-> "7",
       attributes |-> [name |-> "Valorant Champions"]],
      [tag |-> "dict", type |-> "leagues", id |-> "8", attributes |-> [name |-> "LoL"]],
      [tag |-> "dict", type |-> "leagues", id |-> "9", attributes |-> [name |-> " VAL "]],
      [tag |-> "dict", type |-> "new_players", id |-> "1",
       attributes |-> [name |-> "p1", team |-> [dict |-> FALSE, value |-> "TA"]]],
      [tag |-> "dict", type |-> "players", id |-> "2",
       attributes |-> [name |-> Null, display_name |-> "p2",
                       team |-> [dict |-> TRUE, abbr |-> "TB"]]]>>

Ref(id) == [data |-> [tag |-> "dict", id |-> id]]
NoKeys == [k \in {} |-> Null]

Projections ==
    {[id |-> "o1",
      attributes |-> ("opponent" :> "TB") @@ st @@ li @@ ti,
      relationships |-> lg @@ pl @@ ga] :
        st \in {"stat_type" :> "Kills",
                ("stat_type" :> Null) @@ ("stat_name" :> "Kills"),
                "stat_name" :> "MAP 1 Kills",
                NoKeys},
        li \in {"line_score" :> "17.5",
                ("line_score" :> Zero) @@ ("line" :> "18"),
                "line_score" :> Zero,
                "value" :> "abc",
                NoKeys},
        ti \in {"board_time" :> "2024-01-01T00:00:00Z",
                ("board_time" :> EmptyStr)
                    @@ ("start_time" :> "2024-01-02T00:00:00+00:00"),
                "updated_at" :> "soon",
                NoKeys},
        lg \in {NoKeys, "league" :> [data |-> JNone]}
               \cup {"league" :> Ref(id) : id \in {"7", "8", "9", "5"}},
        pl \in {"new_player" :> Ref("1"), "player" :> Ref("2"), NoKeys},
        ga \in {"game" :> Ref("g1"), "game" :> [data |-> JNone], NoKeys}}

GoodOffer ==
    [id |-> "o2",
     attributes |-> [opponent |-> Null, stat_type |-> "Kills", line_score |-> "18",
                     board_time |-> "2024-01-02T00:00:00+00:00"],
     relationships |-> [league |-> Ref("7"), new_player |-> Ref("1"),
                        game |-> Ref("g1")]]

OfferJsons ==
    {[data |-> data, included |-> Included] :
        data \in UNION {[1..n -> {p, GoodOffer}] : n \in 0..MaxOffers, p \in Projections}}

InitExtract ==
    /\ ppJson \in OfferJsons
    /\ ppRows = Pending /\ ppDf = Pending
    /\ FetchQuiet
    /\ netLog = <<>> /\ cache = <<>>
    /\ FeatQuiet /\ ApiQuiet /\ MatchQuiet /\ BatchQuiet

\* df = _extract_offer_rows(j)
ExtractOfferRows ==
    /\ ppJson # Pending /\ ppRows = Pending
    /\ ppRows' = _extract_offer_rows(ppJson)
    /\ UNCHANGED <<ppPc, ppParams, ppFirst, ppPage, ppOut, ppRes, ppJson, ppDf,
                   netLog, cache, featVars, apiVars, matchVars, batchVars>>

\* The end of load_current_offers_valorant: de-duplication and sort of a
\* non-empty frame; an exception of _extract_offer_rows is not caught.
LoadCurrentOffers ==
    /\ ppRows # Pending /\ ppDf = Pending
    /\ IF ppRows.status = "raise" THEN ppDf' = ppRows
       ELSE IF IsEmpty(ppRows.df) THEN ppDf' = ppRows
       ELSE \E sorted \in SortOffers(DropDuplicates(ppRows.df.rows)) :
               ppDf' = [status |-> "ok",
                        df |-> [columns |-> ppRows.df.columns, rows |-> sorted]]
    /\ UNCHANGED <<ppPc, ppParams, ppFirst, ppPage, ppOut, ppRes, ppJson, ppRows,
                   netLog, cache, featVars, apiVars, matchVars, batchVars>>

NextExtract ==
    \/ ExtractOfferRows
    \/ LoadCurrentOffers

SpecExtract == InitExtract /\ [][NextExtract]_vars

(***************************************************************************)
(* Feature Engine properties.                                              *)
(***************************************************************************)
RECURSIVE SumOver(_, _)
SumOver(S, f) ==
    IF S = {} THEN Whole(0)
    ELSE LET x == CHOOSE y \in S : TRUE
         IN FAdd(f[x], SumOver(S \ {x}, f))

\* The maps of a pool row that have probability > 0 and a record of the player.
UsedMaps(df, player, row) ==
    {i \in 1..Len(row) :
        /\ row[i][1] \notin {"match_id", "team"}
        /\ row[i][2] > 0
        /\ ByPlayerMap(df, player, row[i][1]) # <<>>}

WeightedMean(df, player, row) ==
    LET used == UsedMaps(df, player, row)
        prob == [i \in used |-> Frac(row[i][2], 10)]
        term == [i \in used |->
                   FMul(prob[i], Mean(ByPlayerMap(df, player, row[i][1]), "kills"))]
    IN FDiv(SumOver(used, term), SumOver(used, prob))

\* C1: map_mixture_expectation returns the sum of probability x per-map mean over
\* the maps with probability > 0 and a record of the player, divided by the sum
\* of the probabilities of those maps.
C1_MixtureIsNormalised ==
    (featCall.op = "mixture"
       /\ UsedMaps(player_maps, featCall.player, featCall.row) # {})
    => featRes.map_mixture_mu
         = WeightedMean(player_maps, featCall.player, featCall.row)

\* C5: a call whose selectors leave no row returns count 0 and the missing value
\* (never zero) in every other numeric field.
C5_EmptySelectionIsMissing ==
    /\ (featCall.op = "last15" /\ ByPlayer(player_maps, featCall.player) = <<>>)
       => /\ featRes.count = 0
          /\ IsNaN(featRes.mean) /\ IsNaN(featRes.median)
          /\ IsNaN(featRes.std) /\ IsNaN(featRes.over_rate)
    /\ (featCall.op = "h2h"
          /\ ByPlayerOpponent(player_maps, featCall.player, featCall.opponent) = <<>>)
       => /\ featRes.h2h_count = 0
          /\ IsNaN(featRes.h2h_over_rate)
          /\ featRes.h2h_over_rate # Whole(0)
    /\ (featCall.op = "mixture"
          /\ UsedMaps(player_maps, featCall.player, featCall.row) = {})
       => /\ IsNaN(featRes.map_mixture_mu)
          /\ \A i \in 1..Len(featRes.per_map) : IsNaN(featRes.per_map[i].mu)

C5_Witness ==
    /\ featCall.op = "h2h"
    /\ ByPlayer(player_maps, featCall.player) # <<>>
    /\ ByPlayerOpponent(player_maps, featCall.player, featCall.opponent) = <<>>
    /\ featRes.h2h_count = 0

\* C6: head_to_head_rate counts the min(window, k) most recent of the k records
\* matching player and opponent, and its rate is the fraction of exactly those
\* whose value is strictly greater than line.
MatchingRows(df, player, opponent) ==
    {i \in 1..Len(df) : df[i].player = player /\ df[i].opponent = opponent}

Min(a, b) == IF a < b THEN a ELSE b

C6_HeadToHeadWindow ==
    featCall.op = "h2h"
    => LET M == MatchingRows(player_maps, featCall.player, featCall.opponent)
           n == Min(featCall.window, Cardinality(M))
       IN /\ featRes.h2h_count = n
          /\ n > 0 =>
               \E S \in SUBSET M :
                  /\ Cardinality(S) = n
                  /\ \A s \in S : \A u \in M \ S :
                        player_maps[s].date >= player_maps[u].date
                  /\ featRes.h2h_over_rate
                       = Frac(Cardinality({s \in S :
                                 player_maps[s].kills > featCall.line}), n)

C6_Witness ==
    /\ featCall.op = "h2h"
    /\ featCall.window = 1
    /\ featRes.h2h_count = 1
    /\ featRes.h2h_over_rate = Whole(0)
    /\ \E i, j \in MatchingRows(player_maps, featCall.player, featCall.opponent) :
          /\ player_maps[i].date > player_maps[j].date
          /\ player_maps[i].kills = featCall.line
          /\ player_maps[j].kills > featCall.line

(***************************************************************************)
(* Acquisition Reconciler properties.                                      *)
(***************************************************************************)
MetaKeys == {"team_a", "team_b", "event", "bo_format", "date"}

MergeReturned == mOut.status = "ok" /\ mOut.path = "merge"

CollectionsMerged ==
    /\ mOut.maps_df = IF IsEmpty(mOut.api.maps_df) THEN mOut.scraped.maps_df
                      ELSE mOut.api.maps_df
    /\ mOut.pmaps_df = IF IsEmpty(mOut.api.pmaps_df) THEN mOut.scraped.pmaps_df
                       ELSE mOut.api.pmaps_df
    /\ mOut.vetoes = IF mOut.api.vetoes # <<>> THEN mOut.api.vetoes
                     ELSE mOut.scraped.vetoes

C7_ReturnedTeamsNonNull ==
    mOut.status = "ok" => mOut.meta.team_a # Null /\ mOut.meta.team_b # Null

\* C8: in every result of resolve_match, a MapResult winner that is present is
\* the team_a or the team_b of the MatchMeta returned with it.
C8_WinnerIsAMatchTeam ==
    mOut.status = "ok"
    => \A i \in 1..Len(mOut.maps_df.rows) :
          mOut.maps_df.rows[i].winner # Null
          => mOut.maps_df.rows[i].winner \in {mOut.meta.team_a, mOut.meta.team_b}

\* C9: the primary path accepts the first candidate whose response is a mapping:
\* it stops at the earliest such candidate, and fails with "API miss"
\* (SourceUnavailable) only when no candidate returns a mapping.
IsMapping(r) == r.kind = "json" /\ r.shape = "dict"
MappingCandidates == {i \in 1..NumCandidates : IsMapping(aCall.responses[i])}
C9_FirstMappingAccepted ==
    aCall.status = "called"
    => IF MappingCandidates = {}
       THEN aRes.status = "raise" /\ aRes.error = "API miss"
       ELSE /\ ~(aRes.status = "raise" /\ aRes.error = "API miss")
            /\ \A i \in MappingCandidates : aRes.requests <= i
            /\ aRes.requests \in MappingCandidates

\* The locators of positions 1..n that were resolved, as match ids, in order.
RECURSIVE ResolvedIds(_)
ResolvedIds(n) ==
    IF n = 0 THEN <<>>
    ELSE IF n \in bSkipped THEN ResolvedIds(n - 1)
    ELSE Append(ResolvedIds(n - 1), _extract_match_id_from_url(bUrls[n]))

BatchOutcome ==
    /\ bStatus # "raised"
    /\ bPos <= Len(bUrls) + 1
    /\ [i \in 1..Len(matches_meta) |-> matches_meta[i].match_id]
         = ResolvedIds(bPos - 1)
    /\ bStatus = "returned"
       => /\ bPos = Len(bUrls) + 1
          /\ bOut.matches_df.rows = matches_meta

SkipLeavesNoRow ==
    bSkipped' # bSkipped
    => /\ UNCHANGED <<matches_meta, all_maps, all_pmaps>>
       /\ bStatus' = "running"
       /\ bPos' = bPos + 1

\* C3: no exception escapes resolve_matches; a locator whose resolution fails
\* adds no row to any collection, the later locators are still processed, and
\* the match metadata holds one row per resolved locator, in input order.
C3_BatchSkipsFailures == []BatchOutcome /\ [][SkipLeavesNoRow]_vars

C3_Witness ==
    /\ bStatus = "returned"
    /\ Len(bUrls) = 3
    /\ bSkipped = {2}
    /\ Len(bOut.matches_df.rows) = 2
    /\ Len(bOut.maps_df.rows) >= 2

\* C4: when no locator resolves, the three returned collections are empty and
\* have their full column sets.
C4_EmptyFramesKeepColumns ==
    (bStatus = "returned" /\ matches_meta = <<>>)
    => /\ bOut.matches_df.rows = <<>> /\ bOut.matches_df.columns = MatchColumns
       /\ bOut.maps_df.rows = <<>> /\ bOut.maps_df.columns = MapColumns
       /\ bOut.player_maps_df.rows = <<>>
       /\ bOut.player_maps_df.columns = PlayerMapColumns

\* C10: between any two successive live requests to the same upstream there is
\* a pause.
IsRequest(e) == e # Sleep
C10_PauseBetweenRequests ==
    \A i, j \in 1..Len(netLog) :
       (i < j /\ IsRequest(netLog[i]) /\ netLog[j] = netLog[i])
       => \E k \in (i + 1)..(j - 1) : netLog[k] = Sleep

\* The live fetches of vlr.gg documents that one parse_match call made.  A call
\* fetches at one locator only: the merge fetches match_url_or_id, which starts
\* with "http", and the except clause then fetches that same URL.
LiveFetches(r) == {i \in 1..Len(r.log) : r.log[i] = "GET vlr.gg"}

\* C11: within one resolve_match call the fallback document is fetched live at
\* most once; a failed fetch, also one made for the partial-data merge, is not
\* followed by a second fetch of the same locator.
C11_NoSecondFetch ==
    mOut # Pending => Cardinality(LiveFetches(mOut)) <= 1

(***************************************************************************)
(* Offer Normalizer properties.                                            *)
(***************************************************************************)
\* The league of a projection passes the allow-list check: the projection has
\* a league relation, the included objects hold that league, and its name
\* passes.
LeagueAllowed(j, d) ==
    /\ "league" \in DOMAIN d.relationships
    /\ d.relationships.league.data.tag = "dict"
    /\ \E k \in 1..Len(j.included) :
          /\ j.included[k].type = "leagues"
          /\ j.included[k].id = d.relationships.league.data.id
          /\ _is_valorant_league(j.included[k])

\* C12: every offer of the output comes from a projection whose league passes
\* the allow-list check; a projection without league relation, with a league
\* that is not among the included objects, or with another league name, is
\* not in the output.
C12_OnlyAllowedLeagues ==
    ppDf.status = "ok"
    => \A r \in 1..Len(ppDf.df.rows) :
         \A i \in 1..Len(ppJson.data) :
            ppJson.data[i].id = ppDf.df.rows[r].offer_id
            => LeagueAllowed(ppJson, ppJson.data[i])

(***************************************************************************)
(* Record Store properties of a batch.                                     *)
(***************************************************************************)
\* C13: in the output of resolve_matches no two PlayerMapRecord rows have the
\* same (match_id, map_num, player), and no row of the map or player-map
\* collection has a null match_id.
C13_RecordKeysUnique ==
    bStatus = "returned"
    => /\ \A i, k \in 1..Len(bOut.player_maps_df.rows) :
            i # k =>
              <<bOut.player_maps_df.rows[i].match_id,
                bOut.player_maps_df.rows[i].map_num,
                bOut.player_maps_df.rows[i].player>>
              # <<bOut.player_maps_df.rows[k].match_id,
                  bOut.player_maps_df.rows[k].map_num,
                  bOut.player_maps_df.rows[k].player>>
       /\ \A i \in 1..Len(bOut.player_maps_df.rows) :
            bOut.player_maps_df.rows[i].match_id # Null
       /\ \A i \in 1..Len(bOut.maps_df.rows) :
            bOut.maps_df.rows[i].match_id # Null

\* The value under the first of the candidate keys whose value is non-null
\* (vals: the values under the keys in priority order, Null for an absent key).
RECURSIVE FirstNonNull(_)
FirstNonNull(vals) ==
    IF vals = <<>> THEN Null
    ELSE IF Head(vals) # Null THEN Head(vals)
    ELSE FirstNonNull(Tail(vals))

AliasValues(attrs, keys) == [i \in 1..Len(keys) |-> Get(attrs, keys[i])]

\* C14: the stat type, the line value and the timestamp of an offer are the
\* values under the first candidate key, in priority order, whose value is
\* non-null: a zero or empty value under an earlier key is taken, a null one
\* falls through to the next key.
C14_FirstNonNullAlias ==
    ppRows.status = "ok"
    => \A r \in 1..Len(ppRows.df.rows) :
         \A i \in 1..Len(ppJson.data) :
            ppJson.data[i].id = ppRows.df.rows[r].offer_id
            => /\ ppRows.df.rows[r].stat_type
                    = Lower(FirstNonNull(AliasValues(ppJson.data[i].attributes,
                                                     <<"stat_type", "stat_name">>)))
               /\ IsNumber(FirstNonNull(AliasValues(ppJson.data[i].attributes,
                                                    <<"line_score", "line", "value">>)))
               /\ ppRows.df.rows[r].line
                    = FloatOf(FirstNonNull(AliasValues(ppJson.data[i].attributes,
                                                       <<"line_score", "line", "value">>)))
               /\ ppRows.df.rows[r].offer_time
                    = OfferTime(FirstNonNull(
                          AliasValues(ppJson.data[i].attributes,
                                      <<"board_time", "start_time", "updated_at">>)))

\* C15: _extract_offer_rows does not raise whatever the fields of one
\* projection hold (a missing key, a line value that is not a number, a
\* timestamp that does not parse), and every complete projection of the
\* response still gives its row.
C15_ExtractionNeverRaises ==
    ppRows # Pending
    => /\ ppRows.status = "ok"
       /\ Cardinality({r \in 1..Len(ppRows.df.rows) :
                          ppRows.df.rows[r].offer_id = GoodOffer.id})
            = Cardinality({i \in 1..Len(ppJson.data) : ppJson.data[i] = GoodOffer})

(***************************************************************************)
(* Disk cache properties.                                                  *)
(***************************************************************************)
\* The calls before the i-th that fetched the same URL successfully.
EarlierSuccess(i) ==
    {k \in 1..(i - 1) : fetches[k].url = fetches[i].url /\ fetches[k].status = "ok"}

FetchHistory ==
    /\ \A i \in 1..Len(fetches) :
          IF EarlierSuccess(i) # {}
          THEN /\ ~fetches[i].live
               /\ fetches[i].status = "ok"
               /\ \A k \in EarlierSuccess(i) : fetches[i].html = fetches[k].html
          ELSE /\ fetches[i].live
               /\ fetches[i].status = "ok" <=> fetches[i].served # Null
               /\ fetches[i].html = fetches[i].served
    /\ DOMAIN cache = {_cache_path(fetches[i].url) :
                          i \in {k \in 1..Len(fetches) : fetches[k].status = "ok"}}
    /\ \A i \in 1..Len(fetches) :
          fetches[i].status = "ok" => cache[_cache_path(fetches[i].url)] = fetches[i].html
    /\ Len(netLog) = 2 * Cardinality({i \in 1..Len(fetches) : fetches[i].live})
    /\ \A k \in 1..Len(netLog) :
          netLog[k] = IF k % 2 = 1 THEN Sleep ELSE "GET vlr.gg"

FetchStep ==
    fetches' # fetches
    => IF _cache_path(fetches'[Len(fetches')].url) \in DOMAIN cache
       THEN cache' = cache /\ netLog' = netLog
       ELSE /\ netLog' = netLog \o <<Sleep, "GET vlr.gg">>
            /\ \A cp \in DOMAIN cache : cp \in DOMAIN cache' /\ cache'[cp] = cache[cp]
            /\ fetches'[Len(fetches')].status = "raise" => cache' = cache

\* C16: in a sequence of fetch_html calls, a call for a URL that was fetched
\* successfully before returns the document cached then, with no request,
\* no pause and no change of the cache; a call for an uncached URL pauses,
\* then requests, and a cache entry is written only when the request
\* succeeded; the calls for one URL use one cache key.
C16_CachedUrlFetchedOnce == []FetchHistory /\ [][FetchStep]_vars

C16_Witness ==
    /\ Len(fetches) = 3
    /\ fetches[1].url = fetches[2].url /\ fetches[2].url = fetches[3].url
    /\ fetches[1].status = "raise" /\ fetches[1].live
    /\ fetches[2].status = "ok" /\ fetches[2].live
    /\ fetches[3].status = "ok" /\ ~fetches[3].live
    /\ fetches[3].served # fetches[2].served /\ fetches[3].served # Null
    /\ fetches[3].html = fetches[2].served
    /\ Cardinality(DOMAIN cache) = 1
    /\ Len(netLog) = 4

(***************************************************************************)
(* PlayerMapRecord properties of one resolve_match.                        *)
(***************************************************************************)
\* C17: every PlayerMapRecord that resolve_match returns, from either path,
\* has a non-null opponent, which is the one of the two teams of the returned
\* MatchMeta that is not the record's own team.
C17_OpponentIsOtherTeam ==
    mOut.status = "ok"
    => \A i \in 1..Len(mOut.pmaps_df.rows) :
         /\ mOut.pmaps_df.rows[i].opponent # Null
         /\ mOut.pmaps_df.rows[i].opponent # mOut.pmaps_df.rows[i].team
         /\ {mOut.pmaps_df.rows[i].opponent, mOut.pmaps_df.rows[i].team}
              = {mOut.meta.team_a, mOut.meta.team_b}

====
